---- MODULE Spec2Model ----
(***************************************************************************)
(* Model of srp_tasks.py: the Task entity, the flat-file FileTaskStorage   *)
(* and the TaskManager that owns the in-memory collection.                 *)
(*                                                                         *)
(* Text (Python str) is a sequence of one-character strings, so that the   *)
(* record format "id,description,due_date,completed,priority\n" is really  *)
(* written and really parsed back (strip, split(","), int, lower).         *)
(* Python's None is the one-element sequence NoneVal, whose element is not *)
(* a character, so it differs from every text, the text "None" included.   *)
(***************************************************************************)
EXTENDS Integers, Sequences, FiniteSets, TLC

VARIABLES
    file,      \* content of the backing store (a text), or Missing
    tasks,     \* TaskManager.tasks: sequence of Task records
    next_id,   \* TaskManager.next_id
    pc,        \* "ready": a manager exists; "failed": its construction raised
    last       \* the last call: [op, exc, ret], exc "ok" when it raised nothing;
               \* a listing call adds shown, what it displayed

vars == <<file, tasks, next_id, pc, last>>

----------------------------------------------------------------------------
(* Bounds of the model *)

\* add_task is taken only while the collection is shorter than this
MaxTasks == 2

----------------------------------------------------------------------------
(* Python values *)

NoneVal == <<"None">>
\* the backing store does not exist (open(..., "r") raises FileNotFoundError)
Missing == <<"ENOENT">>

\* what a call gave back: nothing (it returned None, or raised), a bool, a Task
ReturnNone    == <<>>
ReturnBool(b) == <<[bool |-> b]>>
ReturnTask(t) == <<t>>

\* literal texts of the source
NoneText   == <<"N", "o", "n", "e">>
TrueText   == <<"T", "r", "u", "e">>
FalseText  == <<"F", "a", "l", "s", "e">>
low        == <<"l", "o", "w">>
medium     == <<"m", "e", "d", "i", "u", "m">>
high       == <<"h", "i", "g", "h">>
Comma      == <<",">>
Newline    == <<"\n">>

UpperCase == <<"A", "B", "C", "D", "E", "F", "G", "H", "I", "J", "K", "L", "M",
               "N", "O", "P", "Q", "R", "S", "T", "U", "V", "W", "X", "Y", "Z">>
LowerCase == <<"a", "b", "c", "d", "e", "f", "g", "h", "i", "j", "k", "l", "m",
               "n", "o", "p", "q", "r", "s", "t", "u", "v", "w", "x", "y", "z">>
DigitChars == <<"0", "1", "2", "3", "4", "5", "6", "7", "8", "9">>
Whitespace == {" ", "\n", "\t", "\r"}

\* index of the first x in sequence s, 0 if there is none
IndexOf(s, x) ==
    LET at == {i \in 1..Len(s) : s[i] = x}
    IN  IF at = {} THEN 0 ELSE CHOOSE i \in at : \A j \in at : i <= j

\* str.lower()
lower(s) ==
    [i \in 1..Len(s) |->
        IF IndexOf(UpperCase, s[i]) # 0 THEN LowerCase[IndexOf(UpperCase, s[i])] ELSE s[i]]

\* str.strip(): whitespace removed at both ends
RECURSIVE lstrip(_)
lstrip(s) == IF s # <<>> /\ Head(s) \in Whitespace THEN lstrip(Tail(s)) ELSE s

RECURSIVE rstrip(_)
rstrip(s) ==
    IF s # <<>> /\ s[Len(s)] \in Whitespace THEN rstrip(SubSeq(s, 1, Len(s) - 1)) ELSE s

strip(s) == rstrip(lstrip(s))

\* str.split(sep) for a one-character sep: always at least one field
RECURSIVE split(_, _)
split(s, sep) ==
    LET i == IndexOf(s, sep)
    IN  IF i = 0 THEN <<s>>
        ELSE <<SubSeq(s, 1, i - 1)>> \o split(SubSeq(s, i + 1, Len(s)), sep)

\* iteration over an open text file: the lines, each with its "\n" when it has one
RECURSIVE readlines(_)
readlines(content) ==
    LET i == IndexOf(content, "\n")
    IN  IF content = <<>> THEN <<>>
        ELSE IF i = 0 THEN <<content>>
        ELSE <<SubSeq(content, 1, i)>> \o readlines(SubSeq(content, i + 1, Len(content)))

\* str(n) of an integer
RECURSIVE StrNat(_)
StrNat(n) == IF n < 10 THEN <<DigitChars[n + 1]>> ELSE StrNat(n \div 10) \o <<DigitChars[(n % 10) + 1]>>

StrInt(n) == IF n < 0 THEN <<"-">> \o StrNat(-n) ELSE StrNat(n)

\* int(text) for texts of the characters used here: surrounding whitespace and
\* one sign are accepted, anything but digits after them is a ValueError
IntBody(s) ==
    LET t == strip(s)
    IN  IF t # <<>> /\ Head(t) \in {"+", "-"} THEN Tail(t) ELSE t

IsInt(s) ==
    /\ IntBody(s) # <<>>
    /\ \A i \in 1..Len(IntBody(s)) : IndexOf(DigitChars, IntBody(s)[i]) # 0

RECURSIVE NatOf(_)
NatOf(ds) ==
    IF ds = <<>> THEN 0
    ELSE 10 * NatOf(SubSeq(ds, 1, Len(ds) - 1)) + (IndexOf(DigitChars, ds[Len(ds)]) - 1)

int(s) == IF Head(strip(s)) = "-" THEN -NatOf(IntBody(s)) ELSE NatOf(IntBody(s))

\* str(x) as the f-string of save_tasks applies it to due_date and completed
StrOpt(x) == IF x = NoneVal THEN NoneText ELSE x
StrBool(b) == IF b THEN TrueText ELSE FalseText

----------------------------------------------------------------------------
(* class Task *)

valid_priorities == {low, medium, high}

\* Task.__init__ without the lower(): a mixed-case priority is reset to 'medium'
Task_NoLower(task_id, description, due_date, completed, priority) ==
    LET p == IF priority # NoneVal /\ priority # <<>> THEN priority ELSE medium
    IN  [id          |-> task_id,
         description |-> description,
         due_date    |-> due_date,
         completed   |-> completed,
         priority    |-> IF p \notin valid_priorities THEN medium ELSE p]

\* Task.__init__: priority is lowercased when truthy, 'medium' when None or '',
\* and reset to 'medium' when the result is not a valid priority
Task(task_id, description, due_date, completed, priority) ==
    LET p == IF priority # NoneVal /\ priority # <<>> THEN lower(priority) ELSE medium
    IN  [id          |-> task_id,
         description |-> description,
         due_date    |-> due_date,
         completed   |-> completed,
         priority    |-> IF p \notin valid_priorities THEN medium ELSE p]

\* mark_completed that flips the flag instead of setting it
mark_completed_Toggle(task) == [task EXCEPT !.completed = ~@]

\* Task.mark_completed
mark_completed(task) == [task EXCEPT !.completed = TRUE]

----------------------------------------------------------------------------
(* class FileTaskStorage *)

\* the fields of one line of the file: line.strip().split(",")
Parts(line) == split(strip(line), ",")

\* the body of the loop of load_tasks for a line with at least 4 fields
LoadLine(line) ==
    LET parts == Parts(line)
    IN  Task(int(parts[1]),
             parts[2],
             IF parts[3] # NoneText THEN parts[3] ELSE NoneVal,
             parts[4] = TrueText,
             IF Len(parts) > 4 THEN parts[5] ELSE medium)

RECURSIVE LoadLines(_)
LoadLines(lines) ==
    IF lines = <<>> THEN <<>>
    ELSE IF Len(Parts(Head(lines))) >= 4
         THEN <<LoadLine(Head(lines))>> \o LoadLines(Tail(lines))
         ELSE LoadLines(Tail(lines))

\* load_tasks without the except clause: FileNotFoundError comes out of it
load_tasks_NoExcept(f) ==
    IF f = Missing THEN [exc |-> "FileNotFoundError", ret |-> <<>>]
    ELSE LET lines == readlines(f)
         IN  IF \E i \in 1..Len(lines) :
                    Len(Parts(lines[i])) >= 4 /\ ~IsInt(Parts(lines[i])[1])
             THEN [exc |-> "ValueError", ret |-> <<>>]
             ELSE [exc |-> "ok", ret |-> LoadLines(lines)]

\* FileTaskStorage.load_tasks: [exc, ret]. A missing file gives the empty list;
\* int() of a first field that is no integer raises ValueError out of load_tasks.
load_tasks(f) ==
    IF f = Missing THEN [exc |-> "ok", ret |-> <<>>]
    ELSE LET lines == readlines(f)
         IN  IF \E i \in 1..Len(lines) :
                    Len(Parts(lines[i])) >= 4 /\ ~IsInt(Parts(lines[i])[1])
             THEN [exc |-> "ValueError", ret |-> <<>>]
             ELSE [exc |-> "ok", ret |-> LoadLines(lines)]

\* the line save_tasks writes for one task
Record(task) ==
    StrInt(task.id) \o Comma \o task.description \o Comma \o StrOpt(task.due_date)
        \o Comma \o StrBool(task.completed) \o Comma \o task.priority \o Newline

\* texts written one after the other
RECURSIVE Concat(_)
Concat(ss) == IF ss = <<>> THEN <<>> ELSE Head(ss) \o Concat(Tail(ss))

\* what the loop of save_tasks writes for ts
Written(ts) == Concat([i \in 1..Len(ts) |-> Record(ts[i])])

\* save_tasks opening the file with "a" instead of "w": the records are appended
save_tasks_Append(f, ts) ==
    {[exc |-> "ok", file |-> (IF f = Missing THEN <<>> ELSE f) \o Written(ts)]}
        \cup {[exc |-> "OSError", file |-> f]}

\* FileTaskStorage.save_tasks on a store holding f: the possible [exc, file].
\* It returns normally with every record written; open(..., "w") can raise and
\* leave the store as it was; a write can raise after the file was truncated
\* and only the first k records were written.
save_tasks(f, ts) ==
    LET records == [i \in 1..Len(ts) |-> Record(ts[i])]
    IN  {[exc |-> "ok", file |-> Concat(records)]}
            \cup {[exc |-> "OSError", file |-> f]}
            \cup {[exc |-> "OSError", file |-> Concat(SubSeq(records, 1, k))] :
                        k \in 0..(Len(ts) - 1)}

----------------------------------------------------------------------------
(* class TaskManager *)

Max(S) == CHOOSE x \in S : \A y \in S : y <= x

\* __init__ forgetting the + 1: next_id is the largest loaded id
InitNextId_NoIncrement(ts) ==
    IF ts # <<>> THEN Max({ts[i].id : i \in 1..Len(ts)} \cup {0}) ELSE 1

\* __init__ counting the loaded tasks instead of taking their largest id
InitNextId_Count(ts) == Len(ts) + 1

\* the next_id TaskManager.__init__ computes from the loaded tasks
InitNextId(ts) ==
    IF ts # <<>> THEN Max({ts[i].id : i \in 1..Len(ts)} \cup {0}) + 1 ELSE 1

\* the manager state TaskManager.__init__ leaves on a store holding f
NewManager(f) ==
    LET l == load_tasks(f)
    IN  IF l.exc = "ok"
        THEN [pc |-> "ready", tasks |-> l.ret, next_id |-> InitNextId(l.ret),
              last |-> [op |-> "__init__", exc |-> "ok", ret |-> ReturnNone]]
        ELSE [pc |-> "failed", tasks |-> <<>>, next_id |-> 1,
              last |-> [op |-> "__init__", exc |-> l.exc, ret |-> ReturnNone]]

\* get_task_by_id returning the last task with that id instead of the first
get_task_by_id_Last(ts, task_id) ==
    LET found == {i \in 1..Len(ts) : ts[i].id = task_id}
    IN  IF found = {} THEN 0 ELSE CHOOSE i \in found : \A j \in found : i >= j

\* TaskManager.get_task_by_id: the position of the first task with that id, 0 for None
get_task_by_id(ts, task_id) ==
    LET found == {i \in 1..Len(ts) : ts[i].id = task_id}
    IN  IF found = {} THEN 0 ELSE CHOOSE i \in found : \A j \in found : i <= j

----------------------------------------------------------------------------
(* Inputs *)

\* arguments of add_task and mark_task_completed; tasks with a due date come
\* from the stores
Descriptions == {<<"a">>, <<"b", ",", "c">>}
DueDates     == {NoneVal}
Priorities   == {NoneVal, <<>>, <<"H", "i", "g", "h">>, <<"x">>}
TaskIds      == (-1)..(MaxTasks + 2)

\* lines of the stores a manager is constructed on: a 5-field record with an
\* upper-case priority, a completed 4-field record with the same id and a due
\* date, a line of one field, the record save_tasks writes for the description
\* "b,c", a record whose id is no integer, and a record with blanks, a negative
\* id, an empty due date, a lower-case completed field and an unknown priority
StoreLines ==
    { <<"2", ",", "a", ",", "N", "o", "n", "e", ",", "F", "a", "l", "s", "e", ",", "L", "O", "W", "\n">>,
      <<"2", ",", "b", ",", "d", ",", "T", "r", "u", "e", "\n">>,
      <<"a", "b", "c", "\n">>,
      <<"1", ",", "b", ",", "c", ",", "N", "o", "n", "e", ",", "F", "a", "l", "s", "e", ",", "m", "e", "d", "i", "u", "m", "\n">>,
      <<"x", ",", "a", ",", "d", ",", "F", "a", "l", "s", "e", ",", "l", "o", "w", "\n">>,
      <<" ", "-", "1", " ", ",", "a", ",", ",", "t", "r", "u", "e", ",", "U", "r", "g", "e", "n", "t", " ", "\n">> }

\* the stores a manager is first constructed on: no file, an empty file, and
\* the files of one line and of two lines
StoreContents ==
    {Missing, <<>>} \cup StoreLines \cup {a \o b : a, b \in StoreLines}

----------------------------------------------------------------------------
(* The state machine *)

\* a TaskManager constructed on any store
Init ==
    \E f \in StoreContents :
        LET m == NewManager(f)
        IN  /\ file = f
            /\ pc = m.pc
            /\ tasks = m.tasks
            /\ next_id = m.next_id
            /\ last = m.last

\* add_task that does not increment next_id
add_task_NoIncrement(description, due_date, priority) ==
    /\ pc = "ready"
    /\ Len(tasks) < MaxTasks
    /\ LET task == Task(next_id, description, due_date, FALSE, priority)
       IN  /\ tasks' = Append(tasks, task)
           /\ next_id' = next_id
           /\ \E o \in save_tasks(file, tasks') :
                /\ file' = o.file
                /\ last' = IF o.exc # "ok"
                           THEN [op |-> "add_task", exc |-> o.exc, ret |-> ReturnNone]
                           ELSE IF priority = NoneVal
                           THEN [op |-> "add_task", exc |-> "AttributeError", ret |-> ReturnNone]
                           ELSE [op |-> "add_task", exc |-> "ok", ret |-> ReturnTask(task)]
    /\ UNCHANGED pc

\* add_task that increments next_id only after save_tasks has returned
add_task_IncrementAfterSave(description, due_date, priority) ==
    /\ pc = "ready"
    /\ Len(tasks) < MaxTasks
    /\ LET task == Task(next_id, description, due_date, FALSE, priority)
       IN  /\ tasks' = Append(tasks, task)
           /\ \E o \in save_tasks(file, tasks') :
                /\ file' = o.file
                /\ next_id' = IF o.exc = "ok" THEN next_id + 1 ELSE next_id
                /\ last' = IF o.exc # "ok"
                           THEN [op |-> "add_task", exc |-> o.exc, ret |-> ReturnNone]
                           ELSE IF priority = NoneVal
                           THEN [op |-> "add_task", exc |-> "AttributeError", ret |-> ReturnNone]
                           ELSE [op |-> "add_task", exc |-> "ok", ret |-> ReturnTask(task)]
    /\ UNCHANGED pc

\* add_task that undoes the append and the increment when save_tasks raises
add_task_Rollback(description, due_date, priority) ==
    /\ pc = "ready"
    /\ Len(tasks) < MaxTasks
    /\ LET task == Task(next_id, description, due_date, FALSE, priority)
       IN  \E o \in save_tasks(file, Append(tasks, task)) :
                /\ file' = o.file
                /\ tasks' = IF o.exc = "ok" THEN Append(tasks, task) ELSE tasks
                /\ next_id' = IF o.exc = "ok" THEN next_id + 1 ELSE next_id
                /\ last' = IF o.exc # "ok"
                           THEN [op |-> "add_task", exc |-> o.exc, ret |-> ReturnNone]
                           ELSE IF priority = NoneVal
                           THEN [op |-> "add_task", exc |-> "AttributeError", ret |-> ReturnNone]
                           ELSE [op |-> "add_task", exc |-> "ok", ret |-> ReturnTask(task)]
    /\ UNCHANGED pc

\* TaskManager.add_task. An exception of save_tasks leaves add_task at line 83,
\* after the append and the increment; the print of line 84 calls
\* priority.upper(), which raises AttributeError when priority is None.
add_task(description, due_date, priority) ==
    /\ pc = "ready"
    /\ Len(tasks) < MaxTasks
    /\ LET task == Task(next_id, description, due_date, FALSE, priority)
       IN  /\ tasks' = Append(tasks, task)
           /\ next_id' = next_id + 1
           /\ \E o \in save_tasks(file, tasks') :
                /\ file' = o.file
                /\ last' = IF o.exc # "ok"
                           THEN [op |-> "add_task", exc |-> o.exc, ret |-> ReturnNone]
                           ELSE IF priority = NoneVal  \* priority.upper() on None
                           THEN [op |-> "add_task", exc |-> "AttributeError", ret |-> ReturnNone]
                           ELSE [op |-> "add_task", exc |-> "ok", ret |-> ReturnTask(task)]
    /\ UNCHANGED pc

\* mark_task_completed that saves the collection also when the id is not found
mark_task_completed_SaveAlways(task_id) ==
    /\ pc = "ready"
    /\ LET i == get_task_by_id(tasks, task_id)
       IN  /\ tasks' = IF i # 0 THEN [tasks EXCEPT ![i] = mark_completed(@)] ELSE tasks
           /\ \E o \in save_tasks(file, tasks') :
                /\ file' = o.file
                /\ last' = IF o.exc # "ok"
                           THEN [op |-> "mark_task_completed", exc |-> o.exc, ret |-> ReturnNone]
                           ELSE [op |-> "mark_task_completed", exc |-> "ok", ret |-> ReturnBool(i # 0)]
    /\ UNCHANGED <<next_id, pc>>

\* mark_task_completed that refuses a task that is completed already
mark_task_completed_OnceOnly(task_id) ==
    /\ pc = "ready"
    /\ LET i == get_task_by_id(tasks, task_id)
       IN  IF i # 0 /\ ~tasks[i].completed
           THEN /\ tasks' = [tasks EXCEPT ![i] = mark_completed(@)]
                /\ \E o \in save_tasks(file, tasks') :
                     /\ file' = o.file
                     /\ last' = IF o.exc # "ok"
                                THEN [op |-> "mark_task_completed", exc |-> o.exc, ret |-> ReturnNone]
                                ELSE [op |-> "mark_task_completed", exc |-> "ok", ret |-> ReturnBool(TRUE)]
           ELSE /\ last' = [op |-> "mark_task_completed", exc |-> "ok", ret |-> ReturnBool(FALSE)]
                /\ UNCHANGED <<tasks, file>>
    /\ UNCHANGED <<next_id, pc>>

\* TaskManager.mark_task_completed. A Task is always truthy, so "if task" is
\* "a task was found".
mark_task_completed(task_id) ==
    /\ pc = "ready"
    /\ LET i == get_task_by_id(tasks, task_id)
       IN  IF i # 0
           THEN /\ tasks' = [tasks EXCEPT ![i] = mark_completed(@)]
                /\ \E o \in save_tasks(file, tasks') :
                     /\ file' = o.file
                     /\ last' = IF o.exc # "ok"
                                THEN [op |-> "mark_task_completed", exc |-> o.exc, ret |-> ReturnNone]
                                ELSE [op |-> "mark_task_completed", exc |-> "ok", ret |-> ReturnBool(TRUE)]
           ELSE /\ last' = [op |-> "mark_task_completed", exc |-> "ok", ret |-> ReturnBool(FALSE)]
                /\ UNCHANGED <<tasks, file>>
    /\ UNCHANGED <<next_id, pc>>

\* priority_order.get(priority, 2) of list_tasks
priority_order(priority) ==
    IF priority = high THEN 3
    ELSE IF priority = medium THEN 2
    ELSE IF priority = low THEN 1
    ELSE 2

\* the sort key of list_tasks with the weight not negated: low before high
SortKey_Ascending(t) == <<IF t.completed THEN 1 ELSE 0, priority_order(t.priority)>>

\* the sort key of list_tasks: (t.completed, -priority_order.get(t.priority, 2)),
\* False ordered before True as 0 before 1
SortKey(t) == <<IF t.completed THEN 1 ELSE 0, 0 - priority_order(t.priority)>>

\* Python's order of two such tuples: a < b
TupleLess(a, b) == a[1] < b[1] \/ (a[1] = b[1] /\ a[2] < b[2])

\* sorted(ts, key=SortKey) as the positions of ts in sorted order. sorted is
\* stable: position n goes behind every earlier position whose key is not
\* greater than its own.
RECURSIVE sorted(_, _)
sorted(ts, n) ==
    IF n = 0 THEN <<>>
    ELSE LET s == sorted(ts, n - 1)
             k == Cardinality({j \in 1..Len(s) :
                                ~TupleLess(SortKey(ts[n]), SortKey(ts[s[j]]))})
         IN  SubSeq(s, 1, k) \o <<n>> \o SubSeq(s, k + 1, Len(s))

\* list_tasks that writes the collection to the store after displaying it
list_tasks_Saves ==
    /\ pc = "ready"
    /\ \E o \in save_tasks(file, tasks) :
        /\ file' = o.file
        /\ last' = [op |-> "list_tasks", exc |-> o.exc, ret |-> ReturnNone,
                    shown |-> IF tasks = <<>> THEN <<>> ELSE sorted(tasks, Len(tasks))]
    /\ UNCHANGED <<tasks, next_id, pc>>

\* TaskManager.list_tasks. shown holds the positions in the collection of the
\* tasks printed, in the order they are printed; nothing for an empty collection.
list_tasks ==
    /\ pc = "ready"
    /\ last' = [op |-> "list_tasks", exc |-> "ok", ret |-> ReturnNone,
                shown |-> IF tasks = <<>> THEN <<>> ELSE sorted(tasks, Len(tasks))]
    /\ UNCHANGED <<file, tasks, next_id, pc>>

\* [task for task in ts if task.priority == wanted] as positions of ts
Filtered(ts, wanted) ==
    LET F[n \in 0..Len(ts)] ==
            IF n = 0 THEN <<>>
            ELSE IF ts[n].priority = wanted THEN Append(F[n - 1], n) ELSE F[n - 1]
    IN  F[Len(ts)]

\* TaskManager.list_tasks_by_priority. priority.lower() (line 119, or
\* priority.upper() of line 120 for an empty collection) raises AttributeError
\* when priority is None, before anything is printed.
list_tasks_by_priority(priority) ==
    /\ pc = "ready"
    /\ last' = IF priority = NoneVal
               THEN [op |-> "list_tasks_by_priority", exc |-> "AttributeError",
                     ret |-> ReturnNone, shown |-> <<>>]
               ELSE [op |-> "list_tasks_by_priority", exc |-> "ok",
                     ret |-> ReturnNone, shown |-> Filtered(tasks, lower(priority))]
    /\ UNCHANGED <<file, tasks, next_id, pc>>

\* a call of TaskManager.get_task_by_id by the user of the manager
get_task_by_id_Call(task_id) ==
    /\ pc = "ready"
    /\ LET i == get_task_by_id(tasks, task_id)
       IN  last' = [op |-> "get_task_by_id", exc |-> "ok",
                    ret |-> IF i = 0 THEN ReturnNone ELSE ReturnTask(tasks[i])]
    /\ UNCHANGED <<file, tasks, next_id, pc>>

Next ==
    \/ \E d \in Descriptions, due \in DueDates, p \in Priorities : add_task(d, due, p)
    \/ \E task_id \in TaskIds : mark_task_completed(task_id)

Spec == Init /\ [][Next]_vars

\* the priorities list_tasks_by_priority is called with
FilterPriorities == {NoneVal, <<"L", "o", "w">>, medium, <<"x">>}

\* the manager with its read-only operations
NextViews ==
    \/ Next
    \/ list_tasks
    \/ \E p \in FilterPriorities : list_tasks_by_priority(p)
    \/ \E task_id \in TaskIds : get_task_by_id_Call(task_id)

SpecViews == Init /\ [][NextViews]_vars

\* a TaskManager constructed while the backing store does not exist
InitMissing ==
    LET m == NewManager(Missing)
    IN  /\ file = Missing
        /\ pc = m.pc
        /\ tasks = m.tasks
        /\ next_id = m.next_id
        /\ last = m.last

SpecMissing == InitMissing /\ [][Next]_vars

\* a TaskManager constructed on a missing or an empty store
InitFresh ==
    \E f \in {Missing, <<>>} :
        LET m == NewManager(f)
        IN  /\ file = f
            /\ pc = m.pc
            /\ tasks = m.tasks
            /\ next_id = m.next_id
            /\ last = m.last

SpecFresh == InitFresh /\ [][Next]_vars

----------------------------------------------------------------------------
(* Definitions used to state the claims *)

\* the last task of a collection
LastTask(ts) == ts[Len(ts)]

\* some task of ts has this id
HasId(ts, task_id) == \E i \in 1..Len(ts) : ts[i].id = task_id

\* i is the first position of ts whose task has this id
IsFirstWithId(ts, i, task_id) ==
    /\ i \in 1..Len(ts)
    /\ ts[i].id = task_id
    /\ \A j \in 1..(i - 1) : ts[j].id # task_id

\* the step is a call of add_task, of mark_task_completed
AddStep == \E d \in Descriptions, due \in DueDates, p \in Priorities : add_task(d, due, p)
MarkStep(task_id) == mark_task_completed(task_id)

\* the store holds exactly one record per task of the collection, in collection
\* order, and nothing else
StoreHoldsCollection(f, ts) == f = Concat([i \in 1..Len(ts) |-> Record(ts[i])])

\* the priority the data model prescribes for an input
CanonicalPriority(p) ==
    IF p # NoneVal /\ lower(p) \in valid_priorities THEN lower(p) ELSE medium

\* the priority fields load_tasks hands to Task, one per line of at least 4
\* fields: the fifth field, or 'medium' for a line of exactly 4 fields
LoadedPriorityInputs(f) ==
    LET records == SelectSeq(IF f = Missing THEN <<>> ELSE readlines(f),
                             LAMBDA l : Len(Parts(l)) >= 4)
    IN  [i \in 1..Len(records) |->
            IF Len(Parts(records[i])) > 4 THEN Parts(records[i])[5] ELSE medium]

\* the priority is not one of low, medium, high in any case
InvalidPriority(p) == p = NoneVal \/ lower(p) \notin valid_priorities

----------------------------------------------------------------------------
(* C1..C10 *)

\* C1: in every state of a constructed manager, no two tasks of the collection
\* have the same id. (Stated as claimed; the code violates it.)
C1_UniqueIds ==
    pc = "ready" =>
        \A i, j \in 1..Len(tasks) : i # j => tasks[i].id # tasks[j].id

\* C2: in every state of a constructed manager, after calls whose save failed
\* too, next_id is strictly greater than the id of every task of the collection.
C2_NextIdAboveIds ==
    pc = "ready" => \A i \in 1..Len(tasks) : tasks[i].id < next_id

C2_Witness ==
    /\ pc = "ready"
    /\ last.exc = "OSError"
    /\ Len(tasks) >= 2

\* C3: save_tasks(tasks) followed by load_tasks() gives back the same sequence
\* of tasks, field by field: whenever the manager's save of its collection has
\* returned normally, load_tasks() on the store returns that collection.
\* (Stated as claimed; the code violates it.)
C3_RoundTrip ==
    (/\ pc = "ready"
     /\ last.op \in {"add_task", "mark_task_completed"}
     /\ last.exc = "ok"
     /\ last.op = "mark_task_completed" => last.ret = ReturnBool(TRUE))
        => load_tasks(file) = [exc |-> "ok", ret |-> tasks]

\* C4: whenever add_task, or mark_task_completed on an existing id, has returned
\* normally, the store holds exactly one record per task of the collection, in
\* collection order.
C4_StoreHoldsCollection ==
    (/\ pc = "ready"
     /\ last.op \in {"add_task", "mark_task_completed"}
     /\ last.exc = "ok"
     /\ last.op = "mark_task_completed" => last.ret = ReturnBool(TRUE))
        => StoreHoldsCollection(file, tasks)

C4_Witness ==
    /\ pc = "ready"
    /\ last.op = "mark_task_completed"
    /\ last.exc = "ok"
    /\ last.ret = ReturnBool(TRUE)
    /\ Len(tasks) >= 2
    /\ StoreHoldsCollection(file, tasks)

\* C5: a call of add_task leaves the previous collection with exactly one task
\* appended; that task has the id next_id had before the call and is not
\* completed; next_id is one greater than before.
C5_AddAppendsOne ==
    [][AddStep =>
        /\ Len(tasks') = Len(tasks) + 1
        /\ SubSeq(tasks', 1, Len(tasks)) = tasks
        /\ LastTask(tasks').id = next_id
        /\ LastTask(tasks').completed = FALSE
        /\ next_id' = next_id + 1]_vars

C5_Witness ==
    /\ pc = "ready"
    /\ last.op = "add_task"
    /\ Len(tasks) >= 2
    /\ LastTask(tasks).id = next_id - 1

\* C6: mark_task_completed(task_id) with an id of the collection sets completed
\* on the first task in collection order with that id and changes no other
\* task; unless save_tasks raised (C10), the store then holds the collection
\* and the call returned true.
C6_MarkCompletesFirst ==
    [][\A task_id \in TaskIds :
        (MarkStep(task_id) /\ HasId(tasks, task_id)) =>
            /\ \E i \in 1..Len(tasks) :
                /\ IsFirstWithId(tasks, i, task_id)
                /\ tasks' = [tasks EXCEPT ![i].completed = TRUE]
            /\ last'.exc \in {"ok", "OSError"}
            /\ last'.exc = "ok" =>
                (last'.ret = ReturnBool(TRUE) /\ StoreHoldsCollection(file', tasks'))]_vars

\* two tasks share an id, the call returned true, and only the first is completed
C6_Witness ==
    /\ pc = "ready"
    /\ last.op = "mark_task_completed"
    /\ last.exc = "ok"
    /\ last.ret = ReturnBool(TRUE)
    /\ \E i, j \in 1..Len(tasks) :
        /\ i < j
        /\ tasks[i].id = tasks[j].id
        /\ tasks[i].completed
        /\ ~tasks[j].completed

\* C7: mark_task_completed(task_id) with an id that is not in the collection
\* raises nothing, returns false and leaves the collection, next_id and the
\* store as they were.
C7_MarkUnknownId ==
    [][\A task_id \in TaskIds :
        (MarkStep(task_id) /\ ~HasId(tasks, task_id)) =>
            /\ last'.exc = "ok"
            /\ last'.ret = ReturnBool(FALSE)
            /\ UNCHANGED <<tasks, next_id, file>>]_vars

\* false was returned while the store was behind the non-empty collection
C7_Witness ==
    /\ pc = "ready"
    /\ last.op = "mark_task_completed"
    /\ last.exc = "ok"
    /\ last.ret = ReturnBool(FALSE)
    /\ tasks # <<>>
    /\ ~StoreHoldsCollection(file, tasks)

\* C8: the priority stored for an input, by add_task and by load_tasks, is its
\* lowercase form when that is low, medium or high, and medium for every other
\* input, None and '' included; every task of every state has a priority in
\* {low, medium, high}.
C8_PriorityNormalised ==
    /\ [](\A i \in 1..Len(tasks) : tasks[i].priority \in valid_priorities)
    /\ []((pc = "ready" /\ last.op = "__init__") =>
            /\ Len(tasks) = Len(LoadedPriorityInputs(file))
            /\ \A i \in 1..Len(tasks) :
                tasks[i].priority = CanonicalPriority(LoadedPriorityInputs(file)[i]))
    /\ [][\A d \in Descriptions, due \in DueDates, p \in Priorities :
            add_task(d, due, p) =>
                LastTask(tasks').priority = CanonicalPriority(p)]_vars

\* a mixed-case High was stored as high beside a task whose priority was reset
C8_Witness ==
    /\ pc = "ready"
    /\ last.op = "add_task"
    /\ LastTask(tasks).priority = high
    /\ \E i \in 1..Len(tasks) : tasks[i].priority = medium

\* C9: add_task with a priority that is not low, medium or high (None and ''
\* included) completes normally and returns the new task, whose priority is
\* medium. (Stated as claimed, save failures apart; the code violates it.)
C9_InvalidPriorityNoError ==
    [][\A d \in Descriptions, due \in DueDates, p \in Priorities :
        (add_task(d, due, p) /\ InvalidPriority(p) /\ last'.exc # "OSError") =>
            /\ last'.exc = "ok"
            /\ last'.ret = ReturnTask(LastTask(tasks'))
            /\ LastTask(tasks').priority = medium]_vars

\* C10: when save_tasks fails during add_task or mark_task_completed (the store
\* does not hold the collection afterwards, or OSError came out), OSError
\* reaches the caller and the change in memory stays: the new task is in the
\* collection and next_id is incremented, the marked task is completed.
C10_SaveFailureNoRollback ==
    [][/\ (AddStep /\ (last'.exc = "OSError" \/ ~StoreHoldsCollection(file', tasks'))) =>
            /\ last'.exc = "OSError"
            /\ Len(tasks') = Len(tasks) + 1
            /\ SubSeq(tasks', 1, Len(tasks)) = tasks
            /\ LastTask(tasks').id = next_id
            /\ next_id' = next_id + 1
       /\ \A task_id \in TaskIds :
            (/\ MarkStep(task_id)
             /\ HasId(tasks, task_id)
             /\ (last'.exc = "OSError" \/ ~StoreHoldsCollection(file', tasks'))) =>
                /\ last'.exc = "OSError"
                /\ \E i \in 1..Len(tasks) :
                    IsFirstWithId(tasks, i, task_id) /\ tasks'[i].completed]_vars

\* add_task raised OSError and its task is in the collection, not in the store
C10_Witness ==
    /\ pc = "ready"
    /\ last.op = "add_task"
    /\ last.exc = "OSError"
    /\ tasks # <<>>
    /\ LastTask(tasks).id = next_id - 1
    /\ ~StoreHoldsCollection(file, tasks)

----------------------------------------------------------------------------
(* C11..C20 *)

\* C11: save_tasks replaces the store atomically: after every step of the
\* manager, whether the call returned or a write failure came out of it, the
\* store holds its complete previous contents or the complete serialization of
\* the collection given to save_tasks, never an empty or partly written file.
\* (Stated as claimed; the code violates it.)
C11_AtomicSave ==
    [][file' = file \/ StoreHoldsCollection(file', tasks')]_vars

\* the weight the sorting property gives a priority
Weight(priority) == CASE priority = high -> 3 [] priority = medium -> 2 [] priority = low -> 1

Ids(ts) == {ts[i].id : i \in 1..Len(ts)}

\* the state is the one TaskManager.__init__ has just left
Constructed == pc = "ready" /\ last.op = "__init__"

\* C13 as claimed: right after construction next_id is 1 plus the largest id
\* among the loaded tasks, or 1 if no task was loaded. (The code violates it on
\* a store whose ids are all negative.)
C13_NextIdAfterInit_Claimed ==
    Constructed =>
        next_id = IF tasks = <<>> THEN 1
                  ELSE 1 + (CHOOSE m \in Ids(tasks) : \A x \in Ids(tasks) : x <= m)

\* C13, amended: right after construction next_id is 1 plus the largest of 0
\* and the ids of the loaded tasks; it is 1 if no task was loaded, and also if
\* no loaded id is positive.
C13_NextIdAfterInit ==
    Constructed =>
        /\ \E m \in Ids(tasks) \cup {0} :
            /\ \A x \in Ids(tasks) \cup {0} : x <= m
            /\ next_id = 1 + m
        /\ tasks = <<>> => next_id = 1
        /\ (\A x \in Ids(tasks) : x <= 0) => next_id = 1

\* constructed on a store whose only id is negative
C13_Witness ==
    /\ Constructed
    /\ tasks # <<>>
    /\ \A x \in Ids(tasks) : x < 0
    /\ next_id = 1

\* the lines of a store that have at least 4 comma-separated fields, in file order
RecordLines(f) ==
    SelectSeq(IF f = Missing THEN <<>> ELSE readlines(f), LAMBDA l : Len(Parts(l)) >= 4)

\* C14: for any store content load_tasks completes without error and returns,
\* in file order, exactly one task for each line of at least 4 comma-separated
\* fields and none for the other lines; a line of exactly 4 fields yields a
\* task with priority medium. (Stated as claimed; the code violates it.)
C14_LoadTolerant ==
    last.op = "__init__" =>
        /\ last.exc = "ok"
        /\ pc = "ready"
        /\ Len(tasks) = Len(RecordLines(file))
        /\ \A i \in 1..Len(tasks) :
            /\ tasks[i].description = Parts(RecordLines(file)[i])[2]
            /\ Len(Parts(RecordLines(file)[i])) = 4 => tasks[i].priority = medium

\* C15: when the store does not exist, load_tasks returns the empty sequence
\* and raises nothing, construction succeeds with an empty collection and
\* next_id = 1, and the first add_task, unless its save raised (C10), creates
\* the store holding exactly the record of that one task, whose id is 1.
C15_MissingStore ==
    /\ [](load_tasks(Missing) = [exc |-> "ok", ret |-> <<>>])
    /\ []((last.op = "__init__" /\ file = Missing) =>
            (pc = "ready" /\ last.exc = "ok" /\ tasks = <<>> /\ next_id = 1))
    /\ [][(Constructed /\ file = Missing /\ AddStep /\ last'.exc # "OSError") =>
            /\ Len(tasks') = 1
            /\ tasks'[1].id = 1
            /\ file' = Record(tasks'[1])]_vars

\* the first add_task on a missing store returned and the store holds its task
C15_Witness ==
    /\ pc = "ready"
    /\ last.op = "add_task"
    /\ last.exc = "ok"
    /\ Len(tasks) = 1
    /\ tasks[1].id = 1
    /\ next_id = 2
    /\ file = Record(tasks[1])

\* C16: in every step of the manager, read-only calls included, every task of
\* the collection stays at its position with its id, description, due_date and
\* priority; its completed flag never goes from true to false, and goes from
\* false to true only in a call of mark_task_completed.
C16_TasksKept ==
    [][/\ Len(tasks') >= Len(tasks)
       /\ \A i \in 1..Len(tasks) :
            /\ tasks'[i].id = tasks[i].id
            /\ tasks'[i].description = tasks[i].description
            /\ tasks'[i].due_date = tasks[i].due_date
            /\ tasks'[i].priority = tasks[i].priority
            /\ tasks[i].completed => tasks'[i].completed
            /\ (~tasks[i].completed /\ tasks'[i].completed) =>
                    last'.op = "mark_task_completed"]_vars

\* mark_task_completed returned true beside a task that is still incomplete
C16_Witness ==
    /\ pc = "ready"
    /\ last.op = "mark_task_completed"
    /\ last.ret = ReturnBool(TRUE)
    /\ \E i, j \in 1..Len(tasks) : tasks[i].completed /\ ~tasks[j].completed

\* the operations that only read the collection
Views == {"list_tasks", "list_tasks_by_priority", "get_task_by_id"}

\* C17: a call of list_tasks, list_tasks_by_priority or get_task_by_id leaves
\* the collection (contents and order), every field of every task, next_id and
\* the store as they were, also when the call raises.
C17_ViewsChangeNothing ==
    [][last'.op \in Views => UNCHANGED <<tasks, next_id, file, pc>>]_vars

\* list_tasks displayed a collection that the store does not hold
C17_Witness ==
    /\ pc = "ready"
    /\ last.op = "list_tasks"
    /\ Len(last.shown) >= 2
    /\ ~StoreHoldsCollection(file, tasks)

\* C18: once mark_task_completed(task_id) has returned true (the first task
\* with that id is completed and the store holds the collection), calling it
\* again with the same id returns true, unless its save raised (C10), and
\* leaves the collection, next_id and the store exactly as they were.
C18_MarkIdempotent ==
    [][\A task_id \in TaskIds :
        (/\ \E i \in 1..Len(tasks) : IsFirstWithId(tasks, i, task_id) /\ tasks[i].completed
         /\ StoreHoldsCollection(file, tasks)
         /\ MarkStep(task_id)
         /\ last'.exc # "OSError") =>
            /\ last'.exc = "ok"
            /\ last'.ret = ReturnBool(TRUE)
            /\ UNCHANGED <<tasks, next_id, file>>]_vars

\* mark_task_completed returned true and every task of the collection is completed
C18_Witness ==
    /\ pc = "ready"
    /\ last.op = "mark_task_completed"
    /\ last.exc = "ok"
    /\ last.ret = ReturnBool(TRUE)
    /\ Len(tasks) >= 2
    /\ \A i \in 1..Len(tasks) : tasks[i].completed
    /\ StoreHoldsCollection(file, tasks)

\* the last call that writes the store, or the construction, returned normally
SavedNormally ==
    \/ Constructed
    \/ /\ pc = "ready"
       /\ last.op \in {"add_task", "mark_task_completed"}
       /\ last.exc = "ok"
       /\ last.op = "mark_task_completed" => last.ret = ReturnBool(TRUE)

\* C19: for a manager built on an empty or missing store, after calls of
\* add_task and mark_task_completed that returned normally, a new TaskManager
\* constructed on the same store has the same collection (same tasks, same
\* fields, same order) and the same next_id. (Stated as claimed, for the states
\* whose last write returned normally; the code violates it.)
C19_RestartEquivalence ==
    SavedNormally =>
        /\ NewManager(file).pc = "ready"
        /\ NewManager(file).tasks = tasks
        /\ NewManager(file).next_id = next_id

\* C20: for a manager constructed on an empty or missing store, in every state,
\* after add_task calls whose save failed too, the ids of the collection in
\* collection order are 1, 2, ..., n and next_id = n + 1, n the length of the
\* collection.
C20_DenseIds ==
    pc = "ready" =>
        /\ \A i \in 1..Len(tasks) : tasks[i].id = i
        /\ next_id = Len(tasks) + 1

\* a second task was added by a call whose save raised
C20_Witness ==
    /\ pc = "ready"
    /\ last.op = "add_task"
    /\ last.exc = "OSError"
    /\ Len(tasks) = 2
    /\ tasks[2].id = 2
    /\ next_id = 3

====
